---- MODULE Spec2Model ----
(***************************************************************************)
(* A model of lib/dht/node.js: the DHT node (Node), its k-buckets (Bucket) *)
(* and its contacts (RemoteNode).                                          *)
(*                                                                         *)
(* Buffers are sequences of words, read as the code reads them with        *)
(* readUInt16BE.  Object maps keyed by a Buffer (Bucket.nodes) are         *)
(* sequences of entries in insertion order, keyed by the string the        *)
(* Buffer is coerced to.  Timers are "armed" until they fire or are        *)
(* cleared; a timer handle that has fired stays in its field as "fired"    *)
(* (a truthy object in the code) until the field is overwritten.           *)
(***************************************************************************)
EXTENDS Integers, Sequences, FiniteSets, TLC

(***************************************************************************)
(* Bounds of the model                                                     *)
(***************************************************************************)
\* an id is IdWords words of WordBits bits (the code: 10 words of 16 bits)
IdWords == 2
WordBits == 2
\* transaction ids are drawn from 0..MaxTid (the code: two random bytes)
MaxTid == 1
\* tokens are drawn from 0..MaxToken (the code: four uninitialised bytes)
MaxToken == 1
\* the clock runs from 0 to MaxTime
MaxTime == 1
\* requests issued in a run of the querier side
MaxReq == 2
\* contacts created in a run of the querier side
MaxRemotes == 1
\* queries observed in a run of the responder side
MaxQueries == 3
\* calls of one continuation that are followed
MaxCalls == 2
\* pings of the contacts in a run that evicts a contact
MaxPings == 4

(***************************************************************************)
(* Program constants                                                       *)
(***************************************************************************)
\* Node: this.K = 8
K == 8

(***************************************************************************)
(* Values                                                                  *)
(***************************************************************************)
WordMax == 2^WordBits - 1
WordHalf == 2^(WordBits - 1)

\* a missing field of a message: a name, a Buffer (the empty one fails the
\* length tests as a missing one fails the presence tests), a number
None == "none"
Malformed == <<>>
NoTid == 0 - 1
NoToken == 0 - 1
NoPort == NoToken

LowId == [i \in 1..IdWords |-> 0]
MidId == [i \in 1..IdWords |-> IF i = 1 THEN WordHalf ELSE 0]
TopId == [i \in 1..IdWords |-> IF i = 1 THEN WordMax ELSE 0]
HighId == [i \in 1..IdWords |-> WordMax]

\* the ids inbound queries carry, the ids the node may have drawn for itself,
\* the infohashes and targets of queries
QueryIds == {LowId, MidId, TopId}
SelfIds == {LowId, HighId}
Hashes == {LowId, MidId}

Tids == 0..MaxTid
Tokens == 0..MaxToken
Addresses == {"a1", "a2"}
Ports == {1, 2}

\* rinfo of a datagram: the sender's address and UDP port
Rinfo(address, port) == [address |-> address, port |-> port]
Rinfos == {Rinfo(a, 1) : a \in Addresses}

VARIABLES
  nodeId,     \* Node.id
  closed,     \* the socket has been closed
  queries,    \* Node.queries: key -> handle of a request in reqs (0: no entry)
  reqs,       \* the query objects created by Node.request, by handle
  buckets,    \* Node.buckets
  remotes,    \* the RemoteNode objects created so far, by handle
  peers,      \* Node.peers: infohash -> list of peer records
  now,        \* the clock (+new Date)
  last,       \* the last datagram received, and what handling it sent and emitted
  events,     \* peer:new and peer:delete events emitted so far
  tokensSent  \* <<address, token>> for every token sent in a get_peers response

vars == <<nodeId, closed, queries, reqs, buckets, remotes, peers, now, last,
          events, tokensSent>>

(***************************************************************************)
(* Buffers and keys                                                        *)
(***************************************************************************)
\* Buffer.isBuffer(id) && id.length === 20
ValidId(id) == Len(id) = IdWords

\* The property key a Buffer is coerced to (String(buffer) decodes UTF-8):
\* a unit that starts no valid sequence decodes to the replacement character,
\* so distinct Buffers can have the same key.
Replacement == WordMax + 1
BufferKey(id) == [i \in 1..Len(id) |-> IF id[i] >= WordHalf THEN Replacement ELSE id[i]]

\* id.toString('hex'): one to one
HexKey(id) == id

RECURSIVE compareFrom(_, _, _)
compareFrom(a, b, i) ==
  IF i > Len(a) THEN 0
  ELSE IF a[i] = b[i] THEN compareFrom(a, b, i + 1)
  ELSE IF a[i] > b[i] THEN 1 ELSE -1

compare(a, b) == compareFrom(a, b, 1)

contains(bucket, id) == compare(bucket.start, id) <= 0 /\ compare(id, bucket.end) <= 0

(***************************************************************************)
(* RemoteNode                                                              *)
(***************************************************************************)
\* new RemoteNode(node, id, target): schedulePing() arms the ping timer;
\* closed records that close() was called on the node (the code keeps no flag)
RemoteNode(id, target, t) ==
  [id |-> id, address |-> target.address, port |-> target.port,
   firstSeen |-> t, lastSeen |-> t, timeout |-> "armed", good |-> TRUE, bads |-> 0,
   closed |-> FALSE]

\* RemoteNode.close: this.timeout still holds the handle of a timer that has
\* fired, so the test passes for it as well
RemoteClose(r) ==
  IF r.timeout # "null" THEN [r EXCEPT !.timeout = "null", !.closed = TRUE]
  ELSE [r EXCEPT !.closed = TRUE]

thank(r, t) == [r EXCEPT !.bads = 0, !.good = TRUE, !.lastSeen = t]

curse(r) == [r EXCEPT !.bads = r.bads + 1, !.good = IF r.bads + 1 > 2 THEN FALSE ELSE r.good]

schedulePing(r) == [r EXCEPT !.timeout = "armed"]

(***************************************************************************)
(* Bucket                                                                  *)
(***************************************************************************)
\* new Bucket(node, start, end); renew() calls Node.findNodes, which is empty
\* and never calls back, so no refresh timer is ever armed
Bucket(start, end, first) ==
  [start |-> start, end |-> end, first |-> first, timeout |-> "null",
   nodes |-> <<>>, slots |-> K]

FirstBucket == Bucket([i \in 1..IdWords |-> 0], [i \in 1..IdWords |-> WordMax], TRUE)

BucketClose(b) == [b EXCEPT !.timeout = "false"]

\* positions of the entry with this key in Bucket.nodes
KeyIndex(nodes, key) == {i \in 1..Len(nodes) : nodes[i].key = key}

\* Bucket.getNodes: the stored RemoteNodes (handles), in key order
getNodes(b) == [i \in 1..Len(b.nodes) |-> b.nodes[i].remote]

\* the keys of the bad nodes sorted by lastSeen (a stable sort): its first element
BadIndices(b, rs) == {i \in 1..Len(b.nodes) : ~rs[b.nodes[i].remote].good}
OldestBad(b, rs) ==
  CHOOSE i \in BadIndices(b, rs) :
    \A j \in BadIndices(b, rs) :
      \/ rs[b.nodes[i].remote].lastSeen < rs[b.nodes[j].remote].lastSeen
      \/ rs[b.nodes[i].remote].lastSeen = rs[b.nodes[j].remote].lastSeen /\ i <= j

RemoveAt(s, i) == [j \in 1..(Len(s) - 1) |-> IF j < i THEN s[j] ELSE s[j + 1]]

\* Bucket.remove(key) of a stored key: closes the node, deletes it, frees a slot
BucketRemove(b, rs, i) ==
  [bucket |-> [b EXCEPT !.nodes = RemoveAt(b.nodes, i), !.slots = b.slots + 1],
   remotes |-> [rs EXCEPT ![b.nodes[i].remote] = RemoteClose(rs[b.nodes[i].remote])]]

\* this.nodes[remote.id] = remote; this.slots--
BucketStore(b, rs, id, target, t) ==
  LET h == Len(rs) + 1
      key == BufferKey(id)
      at == KeyIndex(b.nodes, key)
      entry == [key |-> key, remote |-> h]
  IN [ok |-> TRUE,
      bucket |-> [b EXCEPT !.nodes = IF at = {} THEN Append(b.nodes, entry)
                                     ELSE [b.nodes EXCEPT ![CHOOSE i \in at : TRUE] = entry],
                           !.slots = b.slots - 1],
      remotes |-> Append(rs, RemoteNode(id, target, t))]

\* an add that stores without testing for a free slot
AddUnchecked(b, rs, id, target, t) == BucketStore(b, rs, id, target, t)

\* Bucket.add(id, rinfo)
BucketAdd(b, rs, id, target, t) ==
  IF b.slots = 0
  THEN IF BadIndices(b, rs) = {}
       THEN [ok |-> FALSE, bucket |-> b, remotes |-> rs]
       ELSE LET rm == BucketRemove(b, rs, OldestBad(b, rs))
            IN BucketStore(rm.bucket, rm.remotes, id, target, t)
  ELSE BucketStore(b, rs, id, target, t)

\* The split point of Bucket.split: rpos and lpos, computed word by word from
\* the last word to the first
Base == 2^WordBits

RECURSIVE splitWords(_, _, _, _, _, _, _)
splitWords(start, end, i, overR, overL, rpos, lpos) ==
  IF i < 1 THEN [rpos |-> rpos, lpos |-> lpos]
  ELSE LET sum == end[i] + overR
           carry == IF sum >= Base THEN 1 ELSE 0
           kept == IF i # 1 THEN sum - carry * Base ELSE sum
           nextR == IF i # 1 THEN carry ELSE 0
           word == (kept + start[i]) \div 2
           lword == IF overL # 0 /\ word - overL >= 0 THEN word - overL
                    ELSE IF overL # 0 THEN WordMax ELSE word
           nextL == IF overL # 0 /\ word - overL >= 0 THEN 0 ELSE overL
       IN splitWords(start, end, i - 1, nextR, nextL,
                     [rpos EXCEPT ![i] = word], [lpos EXCEPT ![i] = lword])

SplitPoint(start, end) ==
  splitWords(start, end, IdWords, 1, 1,
             [i \in 1..IdWords |-> 0], [i \in 1..IdWords |-> 0])

\* Bucket.split relocates the stored nodes with head.contains(id), id a key of
\* this.nodes: a string, which has no readUInt16BE, so Bucket.compare throws a
\* TypeError on the first stored node
SplitThrows(b) == Len(b.nodes) > 0

\* Bucket.split of a bucket that stores no node: [head, tail]
Split(b) ==
  LET p == SplitPoint(b.start, b.end)
  IN <<Bucket(b.start, p.lpos, FALSE), Bucket(p.rpos, b.end, FALSE)>>

(***************************************************************************)
(* The routing table                                                       *)
(***************************************************************************)
\* an element of Node.buckets is a Bucket, or the array that
\* buckets.splice(index, 1, bucket.split()) puts in the list
IsArray(e) == "array" \in DOMAIN e

\* this.buckets.filter(bucket => bucket.contains(id)) throws on an array
FilterThrows(bs) == \E i \in 1..Len(bs) : IsArray(bs[i])

Containing(bs, id) == {i \in 1..Len(bs) : contains(bs[i], id)}

\* index of this.buckets.filter(...)[0]
Locate(bs, id) == CHOOSE i \in Containing(bs, id) : \A j \in Containing(bs, id) : i <= j

\* the while (true) loop of Node.processRequest
RECURSIVE observe(_, _, _, _, _)
observe(bs, rs, id, rinfo, t) ==
  IF FilterThrows(bs) \/ Containing(bs, id) = {}
  THEN [threw |-> TRUE, buckets |-> bs, remotes |-> rs]
  ELSE LET i == Locate(bs, id)
           r == BucketAdd(bs[i], rs, id, rinfo, t)
       IN IF r.ok
          THEN [threw |-> FALSE, buckets |-> [bs EXCEPT ![i] = r.bucket],
                remotes |-> r.remotes]
          ELSE IF ~contains(bs[i], nodeId)
          THEN [threw |-> FALSE, buckets |-> bs, remotes |-> rs]
          ELSE IF SplitThrows(bs[i])
          THEN [threw |-> TRUE, buckets |-> bs, remotes |-> rs]
          ELSE observe([bs EXCEPT ![i] = [array |-> Split(bs[i])]], rs, id, rinfo, t)

Min(a, b) == IF a < b THEN a ELSE b

\* Node.findKClosest(id): handles of the RemoteNodes returned
findKClosest(bs, id) ==
  LET i == Locate(bs, id)
      own == getNodes(bs[i])
      prev == IF Len(own) < K /\ i - 1 >= 1 THEN getNodes(bs[i - 1]) ELSE <<>>
      next == IF Len(own) < K /\ i + 1 <= Len(bs) THEN getNodes(bs[i + 1]) ELSE <<>>
      nodes == own \o prev \o next
  IN SubSeq(nodes, 1, Min(K, Len(nodes)))

(***************************************************************************)
(* Messages                                                                *)
(***************************************************************************)
\* a decoded datagram and its rinfo; an absent field has the
\* absent value of its type (None, Malformed, NoTid, NoToken, NoPort)
Msg(y, t, q, id, target, info_hash, token, port, from) ==
  [y |-> y, t |-> t, q |-> q, id |-> id, target |-> target,
   info_hash |-> info_hash, token |-> token, port |-> port, from |-> from]

Ping(t, id, from) ==
  Msg("q", t, "ping", id, Malformed, Malformed, NoToken, NoPort, from)
FindNode(t, id, target, from) ==
  Msg("q", t, "find_node", id, target, Malformed, NoToken, NoPort, from)
GetPeers(t, id, ih, from) ==
  Msg("q", t, "get_peers", id, Malformed, ih, NoToken, NoPort, from)
AnnouncePeer(t, id, ih, token, port, from) ==
  Msg("q", t, "announce_peer", id, Malformed, ih, token, port, from)
Unknown(t, id, from) ==
  Msg("q", t, "vote", id, Malformed, Malformed, NoToken, NoPort, from)
ResponseMsg(t, from) ==
  Msg("r", t, None, Malformed, Malformed, Malformed, NoToken, NoPort, from)
ErrorMsg(t, from) ==
  Msg("e", t, None, Malformed, Malformed, Malformed, NoToken, NoPort, from)

NoMsg == Msg(None, NoTid, None, Malformed, Malformed, Malformed, NoToken, NoPort,
             Rinfo(None, NoPort))

\* the args of a response: has names the keys that are present
Args(has, token, nodes, values) ==
  [has |-> has, token |-> token, nodes |-> nodes, values |-> values]

\* Node.respond(target, msg, args): args.id = this.id, t copied from the query
respond(target, msg, args) ==
  [to |-> target, t |-> msg.t, y |-> "r", id |-> nodeId, r |-> args]

\* utils.encodeNodes and utils.encodePeers: compact node info and peer info
encodeNodes(handles, rs) ==
  [i \in 1..Len(handles) |->
     <<rs[handles[i]].id, rs[handles[i]].address, rs[handles[i]].port>>]

encodePeers(list) == [i \in 1..Len(list) |-> <<list[i].address, list[i].port>>]

(***************************************************************************)
(* Tokens                                                                  *)
(***************************************************************************)
\* Node.issueToken returns new Buffer(4): four bytes of uninitialised memory,
\* so any token
issueToken == Tokens

\* Node.verifyToken
verifyToken(token) == TRUE

(***************************************************************************)
(* The query handlers                                                      *)
(***************************************************************************)
\* what a handler did: the responses sent, whether it threw, the peer store
\* and the events emitted, the token it issued
Handled(sent, threw, ps, emitted, token) ==
  [sent |-> sent, threw |-> threw, peers |-> ps, emitted |-> emitted, token |-> token]

processPing(m) ==
  Handled(<<respond(m.from, m, Args({}, NoToken, <<>>, <<>>))>>,
          FALSE, peers, <<>>, NoToken)

processFindNode(m, bs, rs) ==
  Handled(<<respond(m.from, m,
                    Args({"nodes"}, NoToken, encodeNodes(findKClosest(bs, m.id), rs), <<>>))>>,
          FALSE, peers, <<>>, NoToken)

processGetPeers(m, bs, rs, token) ==
  IF ~ValidId(m.info_hash)
  THEN Handled(<<>>, FALSE, peers, <<>>, NoToken)
  ELSE IF HexKey(m.info_hash) \notin DOMAIN peers
  THEN Handled(<<respond(m.from, m,
                         Args({"token", "nodes"}, token,
                              encodeNodes(findKClosest(bs, m.info_hash), rs), <<>>))>>,
               FALSE, peers, <<>>, token)
  ELSE Handled(<<respond(m.from, m,
                         Args({"token", "values"}, token, <<>>,
                              encodePeers(peers[HexKey(m.info_hash)])))>>,
               FALSE, peers, <<>>, token)

\* the peer of the list that peers.some stops at: peer.port !== peer.port is
\* never true, so the first peer with the address
ExistingPeer(list, address, port) ==
  LET at == {i \in 1..Len(list) : ~(list[i].address # address \/ list[i].port # list[i].port)}
  IN IF at = {} THEN 0 ELSE CHOOSE i \in at : \A j \in at : i <= j

\* peer.renew(): clears the expiry timer and arms it again
PeerRenew(peer) == [peer EXCEPT !.timeout = "armed"]

PeerEvent(type, infohash, peer) ==
  [type |-> type, infohash |-> infohash, address |-> peer.address, port |-> peer.port]

processAnnouncePeer(m) ==
  IF m.token = NoToken \/ ~verifyToken(m.token) \/ ~ValidId(m.info_hash)
  THEN Handled(<<>>, FALSE, peers, <<>>, NoToken)
  ELSE LET infohash == HexKey(m.info_hash)
           address == m.from.address
           port == IF m.port # NoPort THEN m.port ELSE m.from.port
       IN IF infohash \notin DOMAIN peers
          \* peers = this.peers[infohash] is undefined: peers.some throws
          THEN Handled(<<>>, TRUE, peers, <<>>, NoToken)
          ELSE LET list == peers[infohash]
                   existing == ExistingPeer(list, address, port)
                   peer == PeerRenew([address |-> address, port |-> port, timeout |-> "null"])
               IN IF existing # 0
                  THEN Handled(<<respond(m.from, m, Args({}, NoToken, <<>>, <<>>))>>, FALSE,
                               [peers EXCEPT ![infohash] =
                                  [list EXCEPT ![existing] = PeerRenew(list[existing])]],
                               <<>>, NoToken)
                  ELSE Handled(<<respond(m.from, m, Args({}, NoToken, <<>>, <<>>))>>, FALSE,
                               [peers EXCEPT ![infohash] = Append(list, peer)],
                               <<PeerEvent("peer:new", infohash, peer)>>, NoToken)

\* the dispatch at the end of Node.processRequest
dispatch(m, bs, rs, token) ==
  IF m.q = "ping" THEN processPing(m)
  ELSE IF m.q = "find_node" THEN processFindNode(m, bs, rs)
  ELSE IF m.q = "get_peers" THEN processGetPeers(m, bs, rs, token)
  ELSE IF m.q = "announce_peer" THEN processAnnouncePeer(m)
  ELSE Handled(<<>>, FALSE, peers, <<>>, NoToken)

\* what handling a datagram sent, and whether it emitted 'error'
Last(m, sent, error) == [msg |-> m, sent |-> sent, error |-> error]

\* Node.processRequest(type, msg, rinfo), every query carrying its a
processRequest(m, token) ==
  IF ~ValidId(m.id)
  THEN /\ last' = Last(m, <<>>, FALSE)
       /\ UNCHANGED <<buckets, remotes, peers, events, tokensSent>>
  ELSE LET o == observe(buckets, remotes, m.id, m.from, now)
           h == dispatch(m, o.buckets, o.remotes, token)
       IN /\ buckets' = o.buckets
          /\ remotes' = o.remotes
          /\ IF o.threw
             THEN /\ last' = Last(m, <<>>, TRUE)
                  /\ UNCHANGED <<peers, events, tokensSent>>
             ELSE /\ last' = Last(m, h.sent, h.threw)
                  /\ peers' = h.peers
                  /\ events' = events \o h.emitted
                  /\ tokensSent' = IF h.token = NoToken THEN tokensSent
                                   ELSE tokensSent \cup {<<m.from.address, h.token>>}

(***************************************************************************)
(* Transactions                                                            *)
(***************************************************************************)
\* the query object Node.request creates; got lists what its callback was
\* called with; owner is the RemoteNode whose _wrapCallback wraps the
\* callback (0: a callback of the application)
Query(key, owner) == [key |-> key, timeout |-> "armed", got |-> <<>>, owner |-> owner]

\* Node.request with the socket open: this.queries[key] = query
Register(qs, rq, tid, owner) ==
  [queries |-> [qs EXCEPT ![HexKey(tid)] = Len(rq) + 1],
   reqs |-> Append(rq, Query(HexKey(tid), owner))]

\* clearTimeout(query.timeout) in Node.onmessage
ClearedTimeout(q) == "cleared"

\* the callback of query h is called with an outcome; a callback wrapped by
\* RemoteNode._wrapCallback curses or thanks its node and, being the one
\* RemoteNode.schedulePing passes to ping, arms the ping timer again
Called(rq, h, outcome) == [rq EXCEPT ![h].got = Append(rq[h].got, outcome)]

Wrapped(rs, owner, outcome, t) ==
  IF owner = 0 THEN rs
  ELSE [rs EXCEPT ![owner] =
          schedulePing(IF outcome = "ok" THEN thank(rs[owner], t) ELSE curse(rs[owner]))]

\* a callback of the application may issue a request of its own (again # NoTid)
\* while it runs; with the socket closed socket.send throws in it
Reentered(qs, rq, again) ==
  IF again = NoTid \/ closed THEN [queries |-> qs, reqs |-> rq]
  ELSE Register(qs, rq, again, 0)

\* the callback does not return: it throws itself (a callback of the
\* application may), or the request it issues throws
CallbackThrows(again, throws) == throws \/ (again # NoTid /\ closed)

(***************************************************************************)
(* Actions                                                                 *)
(***************************************************************************)
Init ==
  /\ nodeId \in SelfIds
  /\ closed = FALSE
  /\ queries = [k \in Tids |-> 0]
  /\ reqs = <<>>
  /\ buckets = <<FirstBucket>>
  /\ remotes = <<>>
  /\ peers = <<>>
  /\ now = 0
  /\ last = Last(NoMsg, <<>>, FALSE)
  /\ events = <<>>
  /\ tokensSent = {}

\* time passes
Tick ==
  /\ now < MaxTime
  /\ now' = now + 1
  /\ UNCHANGED <<nodeId, closed, queries, reqs, buckets, remotes, peers, last,
                 events, tokensSent>>

\* Node.close
Close ==
  /\ ~closed
  /\ closed' = TRUE
  /\ UNCHANGED <<nodeId, queries, reqs, buckets, remotes, peers, now, last,
                 events, tokensSent>>

\* Node.request called by the application (sendPing, sendFindNode, ...)
Request ==
  /\ ~closed
  /\ Len(reqs) < MaxReq
  /\ \E tid \in Tids :
       LET r == Register(queries, reqs, tid, 0)
       IN /\ queries' = r.queries
          /\ reqs' = r.reqs
  /\ UNCHANGED <<nodeId, closed, buckets, remotes, peers, now, last, events, tokensSent>>

\* Node.onmessage of a query
RecvQuery(msgs, limit) ==
  /\ ~closed
  /\ Len(remotes) < limit
  /\ \E m \in msgs :
       \E token \in IF m.q = "get_peers" THEN issueToken ELSE {NoToken} :
         processRequest(m, token)
  /\ UNCHANGED <<nodeId, closed, queries, reqs, now>>

\* Node.onmessage of a response
RecvResponse ==
  /\ ~closed
  /\ \E t \in Tids \cup {NoTid}, again \in Tids \cup {NoTid}, throws \in BOOLEAN :
       LET m == ResponseMsg(t, Rinfo("a1", 1))
           h == IF t = NoTid THEN 0 ELSE queries[HexKey(t)]
       IN IF h = 0
          THEN /\ again = NoTid
               /\ ~throws
               /\ last' = Last(m, <<>>, t = NoTid)
               /\ UNCHANGED <<queries, reqs, remotes>>
          ELSE LET owner == reqs[h].owner
                   rq == [Called(reqs, h, "ok") EXCEPT ![h].timeout = ClearedTimeout(reqs[h])]
                   re == Reentered(queries, rq, again)
               IN /\ Len(reqs[h].got) < MaxCalls
                  /\ again # NoTid => owner = 0 /\ Len(reqs) < MaxReq
                  /\ throws => owner = 0 /\ again = NoTid
                  /\ reqs' = re.reqs
                  \* delete this.queries[id] comes after the callback: a callback
                  \* that throws leaves the entry, and onmessage emits 'error'
                  /\ queries' = IF CallbackThrows(again, throws) THEN re.queries
                                ELSE [re.queries EXCEPT ![HexKey(t)] = 0]
                  /\ remotes' = Wrapped(remotes, owner, "ok", now)
                  /\ last' = Last(m, <<>>, CallbackThrows(again, throws))
  /\ UNCHANGED <<nodeId, closed, buckets, peers, now, events, tokensSent>>

\* Node.onmessage of an error message: it has no q, msg.q.toString() throws
RecvError ==
  /\ ~closed
  /\ \E t \in Tids : last' = Last(ErrorMsg(t, Rinfo("a1", 1)), <<>>, TRUE)
  /\ UNCHANGED <<nodeId, closed, queries, reqs, buckets, remotes, peers, now,
                 events, tokensSent>>

\* the response timer of query h fires
ResponseTimeout ==
  /\ \E h \in 1..Len(reqs), again \in Tids \cup {NoTid}, throws \in BOOLEAN :
       LET owner == reqs[h].owner
           rq == [Called(reqs, h, "timeout") EXCEPT ![h].timeout = "fired"]
           re == Reentered(queries, rq, again)
       IN /\ reqs[h].timeout = "armed"
          /\ again # NoTid => owner = 0 /\ Len(reqs) < MaxReq
          /\ throws => owner = 0 /\ again = NoTid
          /\ reqs' = re.reqs
          /\ queries' = IF ~CallbackThrows(again, throws) /\ re.queries[reqs[h].key] = h
                        THEN [re.queries EXCEPT ![reqs[h].key] = 0]
                        ELSE re.queries
          /\ remotes' = Wrapped(remotes, owner, "timeout", now)
  /\ UNCHANGED <<nodeId, closed, buckets, peers, now, last, events, tokensSent>>

\* the ping timer of RemoteNode c fires: RemoteNode.ping -> Node.sendPing ->
\* Node.request; with the socket closed socket.send throws before the query
\* is registered. cs: the nodes whose timers are followed, tids: the ids
\* drawn, limit: the requests of a run
PingTimerOf(cs, tids, limit) ==
  /\ Len(reqs) < limit
  /\ \E c \in cs \cap (1..Len(remotes)), tid \in tids :
       LET r == IF closed THEN [queries |-> queries, reqs |-> reqs]
                ELSE Register(queries, reqs, tid, c)
       IN /\ remotes[c].timeout = "armed"
          /\ remotes' = [remotes EXCEPT ![c].timeout = "fired"]
          /\ queries' = r.queries
          /\ reqs' = r.reqs
  /\ UNCHANGED <<nodeId, closed, buckets, peers, now, last, events, tokensSent>>

PingTimer == PingTimerOf(1..Len(remotes), Tids, MaxReq)

\* the expiry timer of a peer record fires (the timer peer.renew arms). No
\* specification below takes this step: processAnnouncePeer throws before it
\* creates a record, so no expiry timer is ever armed.
PeerTimeout ==
  /\ \E ih \in DOMAIN peers :
       \E i \in 1..Len(peers[ih]) :
         /\ peers[ih][i].timeout = "armed"
         /\ peers' = [peers EXCEPT ![ih] = RemoveAt(peers[ih], i)]
         /\ events' = Append(events, PeerEvent("peer:delete", ih, peers[ih][i]))
  /\ UNCHANGED <<nodeId, closed, queries, reqs, buckets, remotes, now, last, tokensSent>>

(***************************************************************************)
(* Specifications                                                          *)
(*                                                                         *)
(* An exception a handler throws is caught by Node.onmessage and emitted   *)
(* as 'error'; an exception thrown in a timer leaves the state as it is at *)
(* the throw.  The application is taken to listen to 'error' and to keep   *)
(* running.                                                                *)
(***************************************************************************)
\* the queries the responder side is sent
Senders == {<<LowId, "a1">>, <<MidId, "a2">>, <<Malformed, "a1">>}

QueryMsgs ==
  UNION {
    {Ping(0, s[1], Rinfo(s[2], 1)),
     Unknown(0, s[1], Rinfo(s[2], 1)),
     FindNode(0, s[1], MidId, Rinfo(s[2], 1)),
     AnnouncePeer(0, s[1], LowId, NoToken, NoPort, Rinfo(s[2], 1)),
     AnnouncePeer(0, s[1], Malformed, 0, NoPort, Rinfo(s[2], 1))}
    \cup {GetPeers(0, s[1], ih, Rinfo(s[2], 1)) : ih \in {LowId, Malformed}}
    \cup {AnnouncePeer(t, s[1], LowId, 0, port, Rinfo(s[2], 1)) :
            t \in Tids, port \in {NoPort, 2}}
    : s \in Senders}

\* the responder side: the node answers queries; no timer fires meanwhile
Next ==
  \/ RecvQuery(QueryMsgs, MaxQueries)
  \/ Tick

Spec == Init /\ [][Next]_vars

\* the querier side: requests of the application and of the contacts' ping
\* timers, their responses and timeouts, pings received, and close
PingMsgs == {Ping(0, LowId, Rinfo("a1", 1))}

InitTx == Init /\ nodeId = LowId

NextTx ==
  \/ Request
  \/ RecvResponse
  \/ RecvError
  \/ ResponseTimeout
  \/ PingTimer
  \/ RecvQuery(PingMsgs, MaxRemotes)
  \/ Close

SpecTx == InitTx /\ [][NextTx]_vars

\* filling the table: K + 1 queries from two nodes behind one address
TableMsgs ==
  {Ping(t, id, Rinfo("a1", 1)) : t \in Tids, id \in {LowId, TopId}}
  \cup {FindNode(0, LowId, MidId, Rinfo("a1", 1)), GetPeers(0, LowId, LowId, Rinfo("a1", 1))}

NextTable == RecvQuery(TableMsgs, K + 1)

SpecTable == Init /\ [][NextTable]_vars

\* filling the bucket with distinct contacts: query n comes from the n-th of
\* K + 1 nodes whose ids have distinct keys, or from the node before it again
FillId(n) == [i \in 1..IdWords |-> ((n - 1) \div (3 ^ (IdWords - i))) % 3]

Stored == Len(buckets[1].nodes)

FillMsgs ==
  {Ping(0, FillId(n), Rinfo("a1", 1)) : n \in {Stored + 1} \cup ({Stored} \ {0})}

NextFill == RecvQuery(FillMsgs, K + 1)

SpecFill == Init /\ [][NextFill]_vars

\* evicting a contact: one node queries K + 1 times; the contact the bucket
\* stores for it pings it, the pings time out
EvictMsgs == {Ping(0, LowId, Rinfo("a1", 1))}

StoredHandles == {buckets[1].nodes[i].remote : i \in 1..Len(buckets[1].nodes)}

ClosedHandles == {c \in 1..Len(remotes) : remotes[c].closed}

NextEvict ==
  \/ RecvQuery(EvictMsgs, K + 1)
  \/ PingTimerOf(StoredHandles \cup ClosedHandles, {0}, MaxPings)
  \/ ResponseTimeout

SpecEvict == InitTx /\ [][NextEvict]_vars

\* Bucket.split as a function of the range: a bucket of any range lo <= hi
\* that stores no node is split into [head, tail]
Ids == [1..IdWords -> 0..WordMax]

InitSplit ==
  /\ nodeId \in SelfIds
  /\ closed = FALSE
  /\ queries = [k \in Tids |-> 0]
  /\ reqs = <<>>
  /\ \E lo \in Ids, hi \in Ids :
       /\ compare(lo, hi) <= 0
       /\ buckets = <<Bucket(lo, hi, FALSE)>>
  /\ remotes = <<>>
  /\ peers = <<>>
  /\ now = 0
  /\ last = Last(NoMsg, <<>>, FALSE)
  /\ events = <<>>
  /\ tokensSent = {}

BucketSplit ==
  /\ Len(buckets) = 1
  /\ ~SplitThrows(buckets[1])
  /\ buckets' = Split(buckets[1])
  /\ UNCHANGED <<nodeId, closed, queries, reqs, remotes, peers, now, last, events,
                 tokensSent>>

NextSplit == BucketSplit

SpecSplit == InitSplit /\ [][NextSplit]_vars

(***************************************************************************)
(* Properties                                                              *)
(***************************************************************************)
\* C1: the continuation of every request is invoked exactly once: not while
\* its response timer is armed, once with the response when the response came
\* first (the timer is cleared), once with the timeout when the timer fired
\* first; a later or duplicate response and the timer after a response never
\* invoke it again.
C1_ContinuationExactlyOnce ==
  \A h \in 1..Len(reqs) :
    /\ reqs[h].timeout = "armed" => reqs[h].got = <<>>
    /\ reqs[h].timeout = "cleared" => reqs[h].got = <<"ok">>
    /\ reqs[h].timeout = "fired" => reqs[h].got = <<"timeout">>

\* C2: after close() no callback fires: no continuation is invoked, no ping
\* timer and no peer expiry runs in any later step.
C2_NoCallbackAfterClose ==
  [][closed => UNCHANGED <<reqs, remotes, peers, events>>]_vars

\* the step receives a datagram (one that differs from the one before)
Receives == last' # last

Answer(l) == l.sent[1]

\* the datagram was answered with one response carrying its t and the node's id
Answered(l) ==
  /\ Len(l.sent) = 1
  /\ Answer(l).y = "r"
  /\ Answer(l).t = l.msg.t
  /\ Answer(l).id = nodeId
  /\ Answer(l).to = l.msg.from

IsQuery(m, q) == m.y = "q" /\ m.q = q /\ ValidId(m.id)

\* an announce_peer with a 20-byte info_hash and a token issued to its sender
ValidAnnounce(m) ==
  /\ IsQuery(m, "announce_peer")
  /\ ValidId(m.info_hash)
  /\ m.token # NoToken
  /\ <<m.from.address, m.token>> \in tokensSent

AnnouncedPort(m) == IF m.port # NoPort THEN m.port ELSE m.from.port

\* the records of the peer store for the pair an announce names
RecordsOf(ps, m) ==
  IF HexKey(m.info_hash) \notin DOMAIN ps THEN {}
  ELSE {i \in 1..Len(ps[HexKey(m.info_hash)]) :
          /\ ps[HexKey(m.info_hash)][i].address = m.from.address
          /\ ps[HexKey(m.info_hash)][i].port = AnnouncedPort(m)}

ArmedRecordsOf(ps, m) ==
  {i \in RecordsOf(ps, m) : ps[HexKey(m.info_hash)][i].timeout = "armed"}

AnnounceEvent(type, m) ==
  [type |-> type, infohash |-> HexKey(m.info_hash), address |-> m.from.address,
   port |-> AnnouncedPort(m)]

\* C3: a valid announce_peer whose (address, port) is not yet recorded for the
\* infohash appends a record for the pair, emits peer:new for it and is
\* answered with a response carrying the node's id.
C3_AnnounceStoresPeer ==
  [][(Receives /\ ValidAnnounce(last'.msg) /\ RecordsOf(peers, last'.msg) = {})
       => /\ Cardinality(RecordsOf(peers', last'.msg)) = 1
          /\ events' = Append(events, AnnounceEvent("peer:new", last'.msg))
          /\ Answered(last')]_vars

SameAnnounce(m, n) ==
  /\ m.info_hash = n.info_hash
  /\ m.from.address = n.from.address
  /\ AnnouncedPort(m) = AnnouncedPort(n)

C5_BadTokenRejected ==
  [][(/\ Receives
      /\ IsQuery(last'.msg, "announce_peer")
      /\ ValidId(last'.msg.info_hash)
      /\ last'.msg.token # NoToken
      /\ <<last'.msg.from.address, last'.msg.token>> \notin tokensSent)
       => /\ Len(last'.sent) = 1
          /\ Answer(last').y = "e"
          /\ peers' = peers
          /\ events' = events]_vars

\* C6: an error message whose t matches an outstanding transaction resolves
\* it (timer cancelled, entry removed, continuation invoked once with the
\* error); one with an unknown t changes no state.
C6_ErrorResolvesTransaction ==
  [][(Receives /\ last'.msg.y = "e")
       => IF queries[HexKey(last'.msg.t)] # 0
          THEN LET h == queries[HexKey(last'.msg.t)]
               IN /\ queries'[HexKey(last'.msg.t)] = 0
                  /\ reqs'[h].timeout = "cleared"
                  /\ reqs'[h].got = <<"error">>
          ELSE UNCHANGED <<queries, reqs, remotes>>]_vars

HasPeers(ps, ih) == HexKey(ih) \in DOMAIN ps /\ Len(ps[HexKey(ih)]) > 0

\* C7: a get_peers query with a 20-byte info_hash is always answered with a
\* token, and with values (the stored peers) exactly when the store holds a
\* peer for the infohash, with nodes (the closest contacts) otherwise.
C7_GetPeersAnswered ==
  [][(Receives /\ IsQuery(last'.msg, "get_peers") /\ ValidId(last'.msg.info_hash))
       => /\ Answered(last')
          /\ IF HasPeers(peers', last'.msg.info_hash)
             THEN /\ Answer(last').r.has = {"token", "values"}
                  /\ Answer(last').r.values =
                       encodePeers(peers'[HexKey(last'.msg.info_hash)])
             ELSE /\ Answer(last').r.has = {"token", "nodes"}
                  /\ Answer(last').r.nodes =
                       encodeNodes(findKClosest(buckets', last'.msg.info_hash), remotes')]_vars

\* C8: a find_node query is answered with the contacts selected for its
\* target: the nodes of the response are findKClosest(a.target).
C8_FindNodeAnswersTarget ==
  [][(Receives /\ IsQuery(last'.msg, "find_node") /\ ValidId(last'.msg.target))
       => /\ Answered(last')
          /\ Answer(last').r.has = {"nodes"}
          /\ Answer(last').r.nodes =
               encodeNodes(findKClosest(buckets', last'.msg.target), remotes')]_vars

\* C9: every ping query with a valid a.id is answered with exactly one
\* response carrying the query's t and the node's id, whatever the observation
\* of the sender did to the routing table.
C9_PingAnswered ==
  [][(Receives /\ IsQuery(last'.msg, "ping")) => Answered(last')]_vars

News(es, e) == {i \in 1..Len(es) : es[i] = [e EXCEPT !.type = "peer:new"]}

RECURSIVE ValueFrom(_, _)
ValueFrom(id, i) == IF i < 1 THEN 0 ELSE id[i] + Base * ValueFrom(id, i - 1)

Value(id) == ValueFrom(id, Len(id))

\* a bucket whose range holds more than one id
Splittable(b) == compare(b.start, b.end) < 0

\* the buckets of the list that contain an id
Holding(bs, id) == {i \in 1..Len(bs) : ~IsArray(bs[i]) /\ contains(bs[i], id)}

C13_SplitPointExact ==
  Len(buckets) = 2
    => /\ Value(buckets[1].end) = (Value(buckets[1].start) + Value(buckets[2].end)) \div 2
       /\ Value(buckets[2].start) = Value(buckets[1].end) + 1

Width(b) == Value(b.end) - Value(b.start)

ContactIds(b, rs) == {rs[b.nodes[i].remote].id : i \in 1..Len(b.nodes)}

StoredIds(bs, rs) == UNION {ContactIds(bs[i], rs) : i \in 1..Len(bs)}

\* C15: a query from a node id that is already stored in its bucket leaves
\* the bucket list, every bucket's set of contact ids and every bucket's free
\* capacity as they were.
C15_ReobservedIdempotent ==
  [][(/\ Receives
      /\ last'.msg.y = "q"
      /\ ValidId(last'.msg.id)
      /\ last'.msg.id \in StoredIds(buckets, remotes))
       => /\ Len(buckets') = Len(buckets)
          /\ \A i \in 1..Len(buckets) :
               /\ buckets'[i].start = buckets[i].start
               /\ buckets'[i].end = buckets[i].end
               /\ ContactIds(buckets'[i], remotes') = ContactIds(buckets[i], remotes)
               /\ buckets'[i].slots = buckets[i].slots]_vars

\* the exclusive or of two words, and the XOR distance of two ids as a number
RECURSIVE XorWord(_, _)
XorWord(a, b) ==
  IF a = 0 /\ b = 0 THEN 0
  ELSE (((a % 2) + (b % 2)) % 2) + 2 * XorWord(a \div 2, b \div 2)

Distance(a, b) == Value([i \in 1..Len(a) |-> XorWord(a[i], b[i])])

\* C17: for every id, findKClosest(id) returns at most K contacts, no contact
\* twice, in non-decreasing XOR distance from id.
C17_ClosestSorted ==
  \A id \in Ids :
    LET found == findKClosest(buckets, id)
    IN /\ Len(found) <= K
       /\ \A i, j \in 1..Len(found) :
            /\ i # j => remotes[found[i]].id # remotes[found[j]].id
            /\ i < j => Distance(remotes[found[i]].id, id) <= Distance(remotes[found[j]].id, id)

\* C20: in every bucket the free-slot counter is K minus the number of
\* contacts the bucket stores, and is never negative.
C20_SlotsMatchContents ==
  \A i \in 1..Len(buckets) :
    /\ buckets[i].slots = K - Len(buckets[i].nodes)
    /\ buckets[i].slots >= 0

\* the requests whose continuation is still to be invoked
Pending(rq) == {h \in 1..Len(rq) : rq[h].timeout = "armed"}

\* C19: the pending requests have pairwise distinct transaction ids, and each
\* of them has its entry in the registry.
C19_DistinctTransactionIds ==
  \A g \in Pending(reqs) :
    /\ queries[reqs[g].key] = g
    /\ \A h \in Pending(reqs) : g # h => reqs[g].key # reqs[h].key

\* C12: every bucket holds at most K contacts.
C12_AtMostKContacts ==
  \A i \in 1..Len(buckets) : ~IsArray(buckets[i]) /\ Len(buckets[i].nodes) <= K

\* the bucket holds K contacts and a query of a further node has been turned
\* down
C12_Witness ==
  /\ Len(buckets[1].nodes) = K
  /\ last.msg.id = FillId(K + 1)
  /\ last.error

\* C18: a contact that was closed has no pending ping timer, so no ping is
\* sent to it any more.
C18_ClosedNeverPinged ==
  \A c \in 1..Len(remotes) : remotes[c].closed => remotes[c].timeout # "armed"

====
